---- MODULE Spec2Model ----
(***************************************************************************)
(* A model of src/tokenizers.js: the tokenizer caches, the model resolver, *)
(* the message counter, the fallback estimator and the endpoint handlers.  *)
(*                                                                         *)
(* JavaScript strings are TLA+ strings; includes() is a real substring     *)
(* search.  An async function runs atomically from one await to the next,  *)
(* so every action below is one such synchronous segment of a handler.     *)
(***************************************************************************)
EXTENDS Integers, Sequences, FiniteSets, TLC

(***************************************************************************)
(* Bounds of the model.                                                    *)
(***************************************************************************)
\* How many fragments a requested model string is assembled from.
MaxFrags == 3

\* How many requests the server receives.
NumReq == 2

\* Where the history stops counting the loads of one backend key.
LoadCap == 2

\* The longest message list sent to /api/tokenize/openai.
MaxMsgs == 2

(***************************************************************************)
(* Strings.                                                                *)
(***************************************************************************)
\* String.prototype.includes: sub occurs in s as a contiguous substring.
Includes(s, sub) ==
    \E i \in 1..(Len(s) - Len(sub) + 1) : SubSeq(s, i, i + Len(sub) - 1) = sub

\* Array.prototype.includes on a sequence: exact membership.
ArrayIncludes(arr, x) == \E i \in 1..Len(arr) : arr[i] = x

SetMin(S) == CHOOSE x \in S : \A y \in S : x <= y

(***************************************************************************)
(* Module-level constants of tokenizers.js.                                *)
(***************************************************************************)
TEXT_COMPLETION_MODELS ==
    << "gpt-3.5-turbo-instruct",
       "gpt-3.5-turbo-instruct-0914",
       "text-davinci-003",
       "text-davinci-002",
       "text-davinci-001",
       "text-curie-001",
       "text-babbage-001",
       "text-ada-001",
       "code-davinci-002",
       "code-davinci-001",
       "code-cushman-002",
       "code-cushman-001",
       "text-davinci-edit-001",
       "code-davinci-edit-001",
       "text-embedding-ada-002",
       "text-similarity-davinci-001",
       "text-similarity-curie-001",
       "text-similarity-babbage-001",
       "text-similarity-ada-001",
       "text-search-davinci-doc-001",
       "text-search-curie-doc-001",
       "text-search-babbage-doc-001",
       "text-search-ada-doc-001",
       "code-search-babbage-code-001",
       "code-search-ada-code-001" >>

(***************************************************************************)
(* getSentencepiceTokenizer(model), lines 93-111: the tokenizer is named   *)
(* by its key, null by "null".                                             *)
(***************************************************************************)
\* (Variant: the 'nerdstash_v2' test comes before the 'nerdstash' one.)
getSentencepiceTokenizerLongFirst(model) ==
    IF Includes(model, "llama") THEN "llama"
    ELSE IF Includes(model, "nerdstash_v2") THEN "nerdstash_v2"
    ELSE IF Includes(model, "nerdstash") THEN "nerdstash"
    ELSE IF Includes(model, "mistral") THEN "mistral"
    ELSE "null"

getSentencepiceTokenizer(model) ==
    IF Includes(model, "llama") THEN "llama"
    ELSE IF Includes(model, "nerdstash") THEN "nerdstash"
    ELSE IF Includes(model, "mistral") THEN "mistral"
    ELSE IF Includes(model, "nerdstash_v2") THEN "nerdstash_v2"
    ELSE "null"

(***************************************************************************)
(* The model resolver.                                                     *)
(***************************************************************************)
\* A resolver whose dated-variant test comes after the generic one.
getTokenizerModelGenericFirst(requestModel) ==
    IF Includes(requestModel, "claude") THEN "claude"
    ELSE IF Includes(requestModel, "llama") THEN "llama"
    ELSE IF Includes(requestModel, "mistral") THEN "mistral"
    ELSE IF Includes(requestModel, "gpt-4-32k") THEN "gpt-4-32k"
    ELSE IF Includes(requestModel, "gpt-4") THEN "gpt-4"
    ELSE IF Includes(requestModel, "gpt-3.5-turbo") THEN "gpt-3.5-turbo"
    ELSE IF Includes(requestModel, "gpt-3.5-turbo-0301") THEN "gpt-3.5-turbo-0301"
    ELSE IF ArrayIncludes(TEXT_COMPLETION_MODELS, requestModel) THEN requestModel
    ELSE "gpt-3.5-turbo"

\* A resolver whose 'gpt-4' test comes before the 'gpt-4-32k' one.
getTokenizerModelShortFirst(requestModel) ==
    IF Includes(requestModel, "claude") THEN "claude"
    ELSE IF Includes(requestModel, "llama") THEN "llama"
    ELSE IF Includes(requestModel, "mistral") THEN "mistral"
    ELSE IF Includes(requestModel, "gpt-4") THEN "gpt-4"
    ELSE IF Includes(requestModel, "gpt-4-32k") THEN "gpt-4-32k"
    ELSE IF Includes(requestModel, "gpt-3.5-turbo-0301") THEN "gpt-3.5-turbo-0301"
    ELSE IF Includes(requestModel, "gpt-3.5-turbo") THEN "gpt-3.5-turbo"
    ELSE IF ArrayIncludes(TEXT_COMPLETION_MODELS, requestModel) THEN requestModel
    ELSE "gpt-3.5-turbo"

getTokenizerModel(requestModel) ==
    IF Includes(requestModel, "claude") THEN "claude"
    ELSE IF Includes(requestModel, "llama") THEN "llama"
    ELSE IF Includes(requestModel, "mistral") THEN "mistral"
    ELSE IF Includes(requestModel, "gpt-4-32k") THEN "gpt-4-32k"
    ELSE IF Includes(requestModel, "gpt-4") THEN "gpt-4"
    ELSE IF Includes(requestModel, "gpt-3.5-turbo-0301") THEN "gpt-3.5-turbo-0301"
    ELSE IF Includes(requestModel, "gpt-3.5-turbo") THEN "gpt-3.5-turbo"
    ELSE IF ArrayIncludes(TEXT_COMPLETION_MODELS, requestModel) THEN requestModel
    ELSE "gpt-3.5-turbo"

(***************************************************************************)
(* JSON values: the parsed request body and what it holds.  Every value is *)
(* a record of one shape; t says which fields matter.                      *)
(***************************************************************************)
JUndefined == [t |-> "undefined", s |-> "", n |-> 0, items |-> <<>>, fields |-> <<>>]

JNull == [t |-> "null", s |-> "", n |-> 0, items |-> <<>>, fields |-> <<>>]

JStr(str) == [t |-> "string", s |-> str, n |-> 0, items |-> <<>>, fields |-> <<>>]

JNum(num) == [t |-> "number", s |-> "", n |-> num, items |-> <<>>, fields |-> <<>>]

JArr(elems) == [t |-> "array", s |-> "", n |-> 0, items |-> elems, fields |-> <<>>]

\* An object: its own properties in insertion order, each [k, v].
JObj(props) == [t |-> "object", s |-> "", n |-> 0, items |-> <<>>, fields |-> props]

\* obj.key of a parsed body: the property's value, or undefined.  An array
\* or a primitive has none of the named properties the handlers read.
Prop(v, key) ==
    IF v.t = "object" /\ \E i \in 1..Len(v.fields) : v.fields[i].k = key
    THEN v.fields[CHOOSE i \in 1..Len(v.fields) : v.fields[i].k = key].v
    ELSE JUndefined

\* JavaScript truthiness of a value.
Truthy(v) ==
    CASE v.t = "undefined" -> FALSE
      [] v.t = "null" -> FALSE
      [] v.t = "string" -> v.s # ""
      [] v.t = "number" -> v.n # 0
      [] OTHER -> TRUE

\* Decimal digits of a natural number.
RECURSIVE Digits(_)
Digits(n) ==
    IF n < 10 THEN SubSeq("0123456789", n + 1, n + 1)
    ELSE Digits(n \div 10) \o SubSeq("0123456789", (n % 10) + 1, (n % 10) + 1)

\* JSON.stringify's escaping of the characters of a string.
RECURSIVE Escape(_)
Escape(str) ==
    IF str = "" THEN ""
    ELSE LET c == SubSeq(str, 1, 1)
             e == CASE c = "\"" -> "\\\""
                    [] c = "\\" -> "\\\\"
                    [] c = "\n" -> "\\n"
                    [] OTHER -> c
         IN  e \o Escape(SubSeq(str, 2, Len(str)))

\* JSON.stringify of a parsed body.
RECURSIVE JSONStringify(_)
RECURSIVE StringifyItems(_)
RECURSIVE StringifyFields(_)
JSONStringify(v) ==
    CASE v.t = "string" -> "\"" \o Escape(v.s) \o "\""
      [] v.t = "number" -> Digits(v.n)
      [] v.t = "array" -> "[" \o StringifyItems(v.items) \o "]"
      [] v.t = "object" -> "{" \o StringifyFields(v.fields) \o "}"
      [] OTHER -> "null"

StringifyItems(elems) ==
    IF elems = <<>> THEN ""
    ELSE JSONStringify(Head(elems))
            \o (IF Len(elems) > 1 THEN "," ELSE "")
            \o StringifyItems(Tail(elems))

StringifyFields(props) ==
    IF props = <<>> THEN ""
    ELSE "\"" \o Escape(Head(props).k) \o "\":" \o JSONStringify(Head(props).v)
            \o (IF Len(props) > 1 THEN "," ELSE "")
            \o StringifyFields(Tail(props))

(***************************************************************************)
(* The fallback estimator: Math.ceil(length / CHARS_PER_TOKEN), with       *)
(* CHARS_PER_TOKEN = 3.35 kept exact as 335 / 100.                         *)
(***************************************************************************)
CHARS_PER_TOKEN_x100 == 335

\* Math.ceil(length / 3.35) in integers.
Estimate(length) ==
    (length * 100 + CHARS_PER_TOKEN_x100 - 1) \div CHARS_PER_TOKEN_x100

(***************************************************************************)
(* The tokenizer backends.  The libraries are opaque; each is modelled as  *)
(* a deterministic chunking of the text into tokens of bounded width, the  *)
(* id of a token being the number its characters spell in the alphabet.    *)
(* The sentencepiece pieces stay inside the words of the text.             *)
(***************************************************************************)
Alphabet == "abcdefghijklmnopqrstuvwxyzABCDEFGHIJKLMNOPQRSTUVWXYZ0123456789-._ :,\n\"\\[]{}"

CharCode(c) == CHOOSE i \in 1..Len(Alphabet) : SubSeq(Alphabet, i, i) = c

RECURSIVE TokenId(_)
TokenId(chunk) ==
    IF chunk = "" THEN 0
    ELSE TokenId(SubSeq(chunk, 1, Len(chunk) - 1)) * (Len(Alphabet) + 1)
            + CharCode(SubSeq(chunk, Len(chunk), Len(chunk)))

\* The ids of text cut into tokens of at most width characters.
ChunkIds(text, width) ==
    [i \in 1..((Len(text) + width - 1) \div width) |->
        TokenId(SubSeq(text, (i - 1) * width + 1,
                       IF i * width < Len(text) THEN i * width ELSE Len(text)))]

\* The text of a token id.
RECURSIVE TokenText(_)
TokenText(id) ==
    IF id = 0 THEN ""
    ELSE TokenText(id \div (Len(Alphabet) + 1))
            \o SubSeq(Alphabet, id % (Len(Alphabet) + 1), id % (Len(Alphabet) + 1))

\* The concatenated text of a list of token ids.
RECURSIVE DecodeTokens(_)
DecodeTokens(ids) ==
    IF ids = <<>> THEN "" ELSE TokenText(Head(ids)) \o DecodeTokens(Tail(ids))

\* Tiktoken.encode(text).
TiktokenEncode(text) == ChunkIds(text, 3)

\* The last character of the first word of a text: a piece of the
\* sentencepiece model starts at a space and never runs across one.
RECURSIVE WordEndFrom(_, _)
WordEndFrom(text, i) ==
    IF i >= Len(text) THEN Len(text)
    ELSE IF SubSeq(text, i + 1, i + 1) = " " THEN i
    ELSE WordEndFrom(text, i + 1)

WordEnd(text) == WordEndFrom(text, 1)

\* SentencePieceProcessor.encodeIds(text), on a loaded processor: every word
\* cut into pieces of at most two characters.
RECURSIVE EncodeIds(_)
EncodeIds(text) ==
    IF text = "" THEN << >>
    ELSE LET end == WordEnd(text)
         IN  ChunkIds(SubSeq(text, 1, end), 2)
                \o EncodeIds(SubSeq(text, end + 1, Len(text)))

\* Tokenizer.encode(text) of the web tokenizer.
ClaudeEncode(text) == ChunkIds(text, 4)

(***************************************************************************)
(* State.                                                                  *)
(***************************************************************************)
VARIABLES
    argModel,           \* the string handed to the resolver
    argParts,           \* how many fragments argModel was assembled from
    resolved,           \* what getTokenizerModel returned for argModel
    applied,            \* whether the resolver has been applied to argModel
    tokenizersCache,    \* tokenizersCache: tiktoken model name -> instance
    spInstance,         \* #instance of each SentencePieceTokenizer (0: unset)
    spProcs,            \* the SentencePieceProcessor objects created, per
                        \* tokenizer: the load status of each, by instance id
    claude_tokenizer,   \* "undefined", "null" or "loaded"
    pc,                 \* where each request's handler stands
    req,                \* each request: endpoint, route key, query model, body
    loc,                \* each handler's local variables
    resp,               \* the response each request was sent
    loads,              \* history: backend key -> the requests that started a load
    failed,             \* history: backend keys whose load has failed
    loadAfterFail,      \* history: keys loaded again after a failed load
    handed,             \* history: key -> instances handed out by the cache
    overlap             \* history: pairs of requests in flight together

resolverVars == <<argModel, argParts, resolved, applied>>

cacheVars == <<tokenizersCache, spInstance, spProcs, claude_tokenizer>>

requestVars == <<pc, req, loc, resp>>

historyVars == <<loads, failed, loadAfterFail, handed, overlap>>

serverVars == <<cacheVars, requestVars, historyVars>>

vars == <<resolverVars, serverVars>>

(***************************************************************************)
(* The server: module state after require(), before loadTokenizers().      *)
(***************************************************************************)
Reqs == 1..NumReq

\* spp_llama, spp_nerd, spp_nerd_v2, spp_mistral.
SPKeys == { "llama", "nerdstash", "nerdstash_v2", "mistral" }

NoBody == JUndefined

NoRequest == [ep |-> "", key |-> "", model |-> "", body |-> NoBody]

\* A handler's locals.  got/loading: the pending get() (the instance it will
\* return, whether this call started its load).  instance: what the handler's
\* own get() returned (0: null).  cst*: what this request's call of
\* countSentencepieceTokens did.  encodes: the calls of encodeIds made for
\* this request.  misused: the request called into a processor whose load
\* had not completed.
NoLocals ==
    [ handler |-> "", key |-> "", text |-> "", idsArg |-> <<>>,
      got |-> 0, loading |-> FALSE, instance |-> 0,
      ids |-> <<>>, count |-> 0,
      cstCalled |-> FALSE, cstKeyFailed |-> FALSE, cstThrew |-> FALSE,
      encodes |-> 0, misused |-> FALSE ]

\* Responses.  kind "none": nothing sent (yet).
NoResponse ==
    [ kind |-> "none", status |-> 0, token_count |-> 0, ids |-> <<>>, count |-> 0,
      chunks |-> <<>>, chunksDefined |-> FALSE, text |-> "", textDefined |-> FALSE,
      caught |-> FALSE ]

\* response.sendStatus(code).
SendStatus(code) == [NoResponse EXCEPT !.kind = "status", !.status = code]

\* res.send({ "token_count": n }); caught: sent from the handler's outer catch.
SendTokenCount(n, caught) ==
    [NoResponse EXCEPT !.kind = "token_count", !.status = 200, !.token_count = n,
                       !.caught = caught]

\* response.send({ ids, count, chunks }); chunks may be undefined.
SendEncoding(ids, count, chunks, chunksDefined) ==
    [NoResponse EXCEPT !.kind = "encoding", !.status = 200, !.ids = ids,
                       !.count = count, !.chunks = chunks,
                       !.chunksDefined = chunksDefined]

\* The catch blocks of the encoding handlers.
SendEmptyEncoding ==
    [SendEncoding(<<>>, 0, <<>>, TRUE) EXCEPT !.caught = TRUE]

\* response.send({ text }); text may be undefined.
SendText(text, textDefined, caught) ==
    [NoResponse EXCEPT !.kind = "text", !.status = 200, !.text = text,
                       !.textDefined = textDefined, !.caught = caught]

ServerStart ==
    /\ tokenizersCache = << >>
    /\ spInstance = [k \in SPKeys |-> 0]
    /\ spProcs = [k \in SPKeys |-> << >>]
    /\ claude_tokenizer = "undefined"
    /\ pc = [r \in Reqs |-> "idle"]
    /\ req = [r \in Reqs |-> NoRequest]
    /\ loc = [r \in Reqs |-> NoLocals]
    /\ resp = [r \in Reqs |-> NoResponse]
    /\ loads = << >>
    /\ failed = {}
    /\ loadAfterFail = {}
    /\ handed = << >>
    /\ overlap = {}

ResolverStart ==
    /\ argModel = ""
    /\ argParts = 0
    /\ resolved = ""
    /\ applied = FALSE

Init == ResolverStart /\ ServerStart

(***************************************************************************)
(* History bookkeeping (not program state).                                *)
(***************************************************************************)
\* f with key k set to v, k being added to the domain when new.
Put(f, k, v) == [x \in (DOMAIN f) \cup {k} |-> IF x = k THEN v ELSE f[x]]

\* The requests that started a load of key k, in order (0: startup).
Loaders(h, k) == IF k \in DOMAIN h THEN h[k] ELSE << >>

LoadCount(h, k) == Len(Loaders(h, k))

\* Request r has started one more load of key k.
CountLoad(h, r, k) ==
    IF LoadCount(h, k) < LoadCap THEN Put(h, k, Append(Loaders(h, k), r)) ELSE h

Handed(h, k) == IF k \in DOMAIN h THEN h[k] ELSE {}

\* The cache handed instance id out for key k (id 0, null, is no instance).
HandOut(h, k, id) == IF id = 0 THEN h ELSE Put(h, k, Handed(h, k) \cup {id})

InFlight(p) == { r \in Reqs : p[r] \notin {"idle", "done", "crashed"} }

\* The pairs of requests in flight together, so far.
Overlap(p) ==
    overlap \cup { pair \in SUBSET InFlight(p) : Cardinality(pair) = 2 }

(***************************************************************************)
(* Handlers are written as operators from the server's state, taken as a   *)
(* record S, to the state after one synchronous segment; Commit makes that *)
(* record the next state.                                                  *)
(***************************************************************************)
Cur ==
    [ cache |-> tokenizersCache, inst |-> spInstance, procs |-> spProcs,
      claude |-> claude_tokenizer, pc |-> pc, req |-> req, loc |-> loc,
      resp |-> resp, loads |-> loads, failed |-> failed,
      loadAfterFail |-> loadAfterFail, handed |-> handed ]

Commit(S) ==
    /\ tokenizersCache' = S.cache
    /\ spInstance' = S.inst
    /\ spProcs' = S.procs
    /\ claude_tokenizer' = S.claude
    /\ pc' = S.pc
    /\ req' = S.req
    /\ loc' = S.loc
    /\ resp' = S.resp
    /\ loads' = S.loads
    /\ failed' = S.failed
    /\ loadAfterFail' = S.loadAfterFail
    /\ handed' = S.handed
    /\ overlap' = Overlap(S.pc)
    /\ UNCHANGED resolverVars

\* The handler of request r awaits at label.
Await(S, r, label) == [S EXCEPT !.pc[r] = label]

\* The handler of request r sends response and ends.
Respond(S, r, response) == [S EXCEPT !.pc[r] = "done", !.resp[r] = response]

\* The handler of request r ends in an exception nothing catches: the
\* promise it returned is rejected and no response is sent.
Reject(S, r) == [S EXCEPT !.pc[r] = "crashed"]

\* The request arrives: endpoint, route key, req.query.model, req.body.
Receive(S, r, ep, key, model, body) ==
    [S EXCEPT !.req[r] = [ep |-> ep, key |-> key, model |-> model, body |-> body],
              !.loc[r] = NoLocals]

\* History: request r starts a load of key k.
LoadStarts(S, r, k) ==
    [S EXCEPT !.loads = CountLoad(S.loads, r, k),
              !.loadAfterFail = IF k \in S.failed THEN @ \cup {k} ELSE @]

\* History: a load of key k fails.
LoadFails(S, k) == [S EXCEPT !.failed = @ \cup {k}]

\* History: the cache of key k hands out instance id.
HandsOut(S, k, id) == [S EXCEPT !.handed = HandOut(S.handed, k, id)]

(***************************************************************************)
(* SentencePieceTokenizer.get().                                           *)
(***************************************************************************)
\* this.#instance of tokenizer k once line 64 has created processor id.
\* (Variant: the new processor never reaches the field.)
AssignInstanceNever(inst, k, id) == inst

AssignInstance(inst, k, id) == [inst EXCEPT ![k] = id]

\* get() of tokenizer k, called by request r, up to its await (lines 59-65):
\* a set #instance is returned as it is; otherwise a processor is created,
\* stored in #instance, and its load started.
SentencePieceTokenizer_get(S, r, k) ==
    IF S.inst[k] # 0
    THEN [S EXCEPT !.loc[r].got = S.inst[k], !.loc[r].loading = FALSE]
    ELSE LET id == Len(S.procs[k]) + 1
         IN  [LoadStarts(S, r, k) EXCEPT
                 !.procs[k] = Append(@, "loading"),
                 !.inst = AssignInstance(@, k, id),
                 !.loc[r].got = id,
                 !.loc[r].loading = TRUE]

\* The caller's await of get() resumes (lines 65-71): a call that started
\* the load sees it end, loaded (ok) or failed, and returns the instance or
\* null (0); a call that found #instance set returns it.
SentencePieceTokenizer_get_resume(S, r, k, ok) ==
    LET l == S.loc[r]
    IN  IF l.loading
        THEN IF ok
             THEN [HandsOut(S, k, l.got) EXCEPT
                      !.procs[k][l.got] = "loaded", !.loc[r].loading = FALSE]
             ELSE [LoadFails(S, k) EXCEPT
                      !.procs[k][l.got] = "failed", !.loc[r].loading = FALSE,
                      !.loc[r].got = 0]
        ELSE HandsOut(S, k, l.got)

\* How a load started by the pending get() of request r can end.
LoadOutcomes(r) == IF loc[r].loading THEN BOOLEAN ELSE {TRUE}

\* What a call into a processor whose load has not completed (still loading,
\* or failed) does is not defined by this code: it throws, or returns
\* something empty.
Misuse == { "throw", "empty" }

(***************************************************************************)
(* getTiktokenTokenizer and loadClaudeTokenizer.                           *)
(***************************************************************************)
\* tokenizersCache once line 227 has stored instance id for model.
CacheStore(cache, model, id) == Put(cache, model, id)

\* getTiktokenTokenizer(model), lines 220-229.  ok: whether
\* tiktoken.encoding_for_model succeeds when it is called.  The result is left
\* in loc[r].got; loc[r].loading tells that encoding_for_model threw.
getTiktokenTokenizer(S, r, model, ok) ==
    IF model \in DOMAIN S.cache
    THEN [HandsOut(S, model, S.cache[model]) EXCEPT
             !.loc[r].got = S.cache[model], !.loc[r].loading = FALSE]
    ELSE LET id == LoadCount(S.loads, model) + 1
             S1 == LoadStarts(S, r, model)
         IN  IF ok
             THEN [HandsOut(S1, model, id) EXCEPT
                      !.cache = CacheStore(@, model, id),
                      !.loc[r].got = id, !.loc[r].loading = FALSE]
             ELSE [LoadFails(S1, model) EXCEPT
                      !.loc[r].got = 0, !.loc[r].loading = TRUE]

\* loadTokenizers(), lines 353-355, with loadClaudeTokenizer, lines 231-240:
\* claude_tokenizer becomes the instance, or null when reading or parsing fails.
loadTokenizers(S, ok) ==
    IF ok
    THEN [HandsOut(LoadStarts(S, 0, "claude"), "claude", 1) EXCEPT !.claude = "loaded"]
    ELSE [LoadFails(LoadStarts(S, 0, "claude"), "claude") EXCEPT !.claude = "null"]

(***************************************************************************)
(* The debug encode / decode handlers.                                     *)
(***************************************************************************)
\* request.body.text || ''.  (The bodies of this model hold a string text
\* or none.)
TextOf(body) ==
    LET t == Prop(body, "text") IN IF t.t = "string" THEN t.s ELSE ""

\* request.body.ids || [].  (The bodies of this model hold a list of
\* numbers or none.)
IdsOf(body) ==
    LET a == Prop(body, "ids")
    IN  IF a.t = "array" THEN [i \in 1..Len(a.items) |-> a.items[i].n] ELSE << >>

\* SentencePieceProcessor.encodePieces(text), on a loaded processor: the
\* pieces of the text, a space inside a piece shown by the meta symbol
\* (written ~ here).
RECURSIVE PieceText(_)
PieceText(chunk) ==
    IF chunk = "" THEN ""
    ELSE (IF SubSeq(chunk, 1, 1) = " " THEN "~" ELSE SubSeq(chunk, 1, 1))
            \o PieceText(SubSeq(chunk, 2, Len(chunk)))

EncodePieces(text) ==
    LET ids == EncodeIds(text) IN [i \in 1..Len(ids) |-> PieceText(TokenText(ids[i]))]

\* getTiktokenChunks / getWebTokenizersChunks: every id decoded on its own.
getTiktokenChunks(ids) == [i \in 1..Len(ids) |-> TokenText(ids[i])]

\* countSentencepieceTokens(tokenizer k, text), from the resumption of its
\* await of get() (lines 120-136).  Leaves ids and count in the locals of r,
\* or cstThrew when encodeIds throws.
\* (Variant: a processor that is not loaded is treated as no instance.)
countSentencepieceTokensEstimateUnloaded(S, r, k, ok, ub) ==
    LET S1 == SentencePieceTokenizer_get_resume(S, r, k, ok)
        instance == S1.loc[r].got
        text == S1.loc[r].text
        S2 == [S1 EXCEPT !.loc[r].cstCalled = TRUE,
                         !.loc[r].cstKeyFailed = (k \in S1.failed)]
    IN  IF instance # 0 /\ S1.procs[k][instance] = "loaded"
        THEN [S2 EXCEPT !.loc[r].ids = EncodeIds(text),
                        !.loc[r].count = Len(EncodeIds(text)),
                        !.loc[r].encodes = @ + 1]
        ELSE [S2 EXCEPT !.loc[r].ids = << >>,
                        !.loc[r].count = Estimate(Len(text))]

countSentencepieceTokens(S, r, k, ok, ub) ==
    LET S1 == SentencePieceTokenizer_get_resume(S, r, k, ok)
        instance == S1.loc[r].got
        text == S1.loc[r].text
        S2 == [S1 EXCEPT !.loc[r].cstCalled = TRUE,
                         !.loc[r].cstKeyFailed = (k \in S1.failed)]
    IN  IF instance = 0
        THEN [S2 EXCEPT !.loc[r].ids = << >>,
                        !.loc[r].count = Estimate(Len(text))]
        ELSE IF S1.procs[k][instance] = "loaded"
        THEN [S2 EXCEPT !.loc[r].ids = EncodeIds(text),
                        !.loc[r].count = Len(EncodeIds(text)),
                        !.loc[r].encodes = @ + 1]
        ELSE IF ub = "throw"
        THEN [S2 EXCEPT !.loc[r].cstThrew = TRUE, !.loc[r].encodes = @ + 1,
                        !.loc[r].misused = TRUE]
        ELSE [S2 EXCEPT !.loc[r].ids = << >>, !.loc[r].count = 0,
                        !.loc[r].encodes = @ + 1, !.loc[r].misused = TRUE]

\* createSentencepieceEncodingHandler(tokenizer k): lines 261-267, up to the
\* await of get().
createSentencepieceEncodingHandler(S, r, k) ==
    LET body == S.req[r].body
    IN  IF ~Truthy(body)
        THEN Respond(S, r, SendStatus(400))
        ELSE Await(SentencePieceTokenizer_get(
                       [S EXCEPT !.loc[r].handler = "sp_encode", !.loc[r].key = k,
                                 !.loc[r].text = TextOf(body)], r, k),
                   r, "enc_get")

\* Lines 267-268: instance is what get() returned; countSentencepieceTokens
\* is called and runs up to its own await of get().
EncodingHandler_instance(S, r, ok) ==
    LET k == S.loc[r].key
        S1 == SentencePieceTokenizer_get_resume(S, r, k, ok)
        S2 == [S1 EXCEPT !.loc[r].instance = S1.loc[r].got]
    IN  Await(SentencePieceTokenizer_get(S2, r, k), r, "enc_count")

\* Line 268: countSentencepieceTokens completes; the handler awaits it.
EncodingHandler_count(S, r, ok, ub) ==
    LET S1 == countSentencepieceTokens(S, r, S.loc[r].key, ok, ub)
    IN  IF S1.loc[r].cstThrew
        THEN Respond(S1, r, SendEmptyEncoding)
        ELSE Await(S1, r, "enc_pieces")

\* Lines 269-274: chunks = await instance?.encodePieces(text), then send.
EncodingHandler_chunks(S, r, ub) ==
    LET l == S.loc[r]
    IN  IF l.instance = 0
        THEN Respond(S, r, SendEncoding(l.ids, l.count, << >>, FALSE))
        ELSE IF S.procs[l.key][l.instance] = "loaded"
        THEN Respond(S, r, SendEncoding(l.ids, l.count, EncodePieces(l.text), TRUE))
        ELSE LET S1 == [S EXCEPT !.loc[r].misused = TRUE]
             IN  IF ub = "throw"
                 THEN Respond(S1, r, SendEmptyEncoding)
                 ELSE Respond(S1, r, SendEncoding(l.ids, l.count, << >>, TRUE))

\* createSentencepieceDecodingHandler(tokenizer k): lines 285-291, up to the
\* await of get().
createSentencepieceDecodingHandler(S, r, k) ==
    LET body == S.req[r].body
    IN  IF ~Truthy(body)
        THEN Respond(S, r, SendStatus(400))
        ELSE Await(SentencePieceTokenizer_get(
                       [S EXCEPT !.loc[r].handler = "sp_decode", !.loc[r].key = k,
                                 !.loc[r].idsArg = IdsOf(body)], r, k),
                   r, "dec_get")

\* Lines 291-297: text = await instance?.decodeIds(ids), then send.
DecodingHandler_text(S, r, ok, ub) ==
    LET k == S.loc[r].key
        S1 == SentencePieceTokenizer_get_resume(S, r, k, ok)
        instance == S1.loc[r].got
    IN  IF instance = 0
        THEN Respond(S1, r, SendText("", FALSE, FALSE))
        ELSE IF S1.procs[k][instance] = "loaded"
        THEN Respond(S1, r, SendText(DecodeTokens(S1.loc[r].idsArg), TRUE, FALSE))
        ELSE LET S2 == [S1 EXCEPT !.loc[r].misused = TRUE]
             IN  IF ub = "throw"
                 THEN Respond(S2, r, SendText("", TRUE, TRUE))
                 ELSE Respond(S2, r, SendText("", TRUE, FALSE))

\* createTiktokenEncodingHandler(modelId): lines 308-316, up to the first
\* await of getTiktokenChunks.
createTiktokenEncodingHandler(S, r, modelId, ok) ==
    LET body == S.req[r].body
    IN  IF ~Truthy(body)
        THEN Respond(S, r, SendStatus(400))
        ELSE LET S1 == getTiktokenTokenizer(
                           [S EXCEPT !.loc[r].handler = "tik_encode",
                                     !.loc[r].key = modelId,
                                     !.loc[r].text = TextOf(body)], r, modelId, ok)
             IN  IF S1.loc[r].loading
                 THEN Respond(S1, r, SendEmptyEncoding)
                 ELSE Await([S1 EXCEPT !.loc[r].ids = TiktokenEncode(TextOf(body))],
                            r, "tik_chunks")

\* Lines 316-317: the chunks are complete; send.
TiktokenEncodingHandler_chunks(S, r) ==
    LET l == S.loc[r]
    IN  Respond(S, r, SendEncoding(l.ids, Len(l.ids), getTiktokenChunks(l.ids), TRUE))

\* createTiktokenDecodingHandler(modelId): lines 332-345, no await.
createTiktokenDecodingHandler(S, r, modelId, ok) ==
    LET body == S.req[r].body
    IN  IF ~Truthy(body)
        THEN Respond(S, r, SendStatus(400))
        ELSE LET S1 == getTiktokenTokenizer(
                           [S EXCEPT !.loc[r].handler = "tik_decode",
                                     !.loc[r].key = modelId], r, modelId, ok)
             IN  IF S1.loc[r].loading
                 THEN Respond(S1, r, SendText("", TRUE, TRUE))
                 ELSE Respond(S1, r, SendText(DecodeTokens(IdsOf(body)), TRUE, FALSE))

(***************************************************************************)
(* Message counting.                                                       *)
(***************************************************************************)
\* Object.values(x) / Object.entries(x) throw on null and undefined.
NoProperties(x) == x.t \in {"null", "undefined"}

\* The decimal index keys "0", "1", ... of a string's or array's entries.
IndexEntries(vals) == [i \in 1..Len(vals) |-> [k |-> Digits(i - 1), v |-> vals[i]]]

\* Object.entries(x), for x that has properties.
ObjectEntries(x) ==
    CASE x.t = "object" -> x.fields
      [] x.t = "array" -> IndexEntries(x.items)
      [] x.t = "string" ->
            IndexEntries([i \in 1..Len(x.s) |-> JStr(SubSeq(x.s, i, i))])
      [] OTHER -> << >>

\* Object.values(x), for x that has properties.
ObjectValues(x) == [i \in 1..Len(ObjectEntries(x)) |-> ObjectEntries(x)[i].v]

\* What Array.prototype.join makes of one element.
RECURSIVE JoinString(_)
RECURSIVE Join(_, _)
JoinString(v) ==
    CASE v.t = "string" -> v.s
      [] v.t = "number" -> Digits(v.n)
      [] v.t = "array" -> Join(v.items, ",")
      [] v.t = "object" -> "[object Object]"
      [] OTHER -> ""

\* Array.prototype.join(separator).
\* (Variant: the separator is left out.)
RECURSIVE JoinNoSeparator(_, _)
JoinNoSeparator(vals, separator) ==
    IF vals = << >> THEN ""
    ELSE JoinString(Head(vals)) \o JoinNoSeparator(Tail(vals), separator)

Join(vals, separator) ==
    IF vals = << >> THEN ""
    ELSE JoinString(Head(vals))
            \o (IF Len(vals) > 1 THEN separator ELSE "")
            \o Join(Tail(vals), separator)

\* array.flatMap(x => Object.values(x)), for an array none of whose
\* elements is null.
RECURSIVE FlatValues(_)
FlatValues(elems) ==
    IF elems = << >> THEN << >>
    ELSE ObjectValues(Head(elems)) \o FlatValues(Tail(elems))

\* Whether line 146 throws: the body has no flatMap, or an element has no
\* properties.
FlatMapThrows(body) ==
    \/ body.t # "array"
    \/ \E i \in 1..Len(body.items) : NoProperties(body.items[i])

\* Tiktoken.encode(value) throws on a value that is not a string.
EncodeThrows(value) == value.t # "string"

\* Lines 458-463, the fields of one message from the first on: what they add
\* to num_tokens before the loop ends or encode throws.
RECURSIVE FieldTokens(_, _)
FieldTokens(entries, tokensPerName) ==
    IF entries = << >> THEN 0
    ELSE IF EncodeThrows(Head(entries).v) THEN 0
    ELSE Len(TiktokenEncode(Head(entries).v.s))
            + (IF Head(entries).k = "name" THEN tokensPerName ELSE 0)
            + FieldTokens(Tail(entries), tokensPerName)

\* Lines 456-466: what one message adds to num_tokens.
MessageTokens(msg, tokensPerMessage, tokensPerName) ==
    tokensPerMessage
        + (IF NoProperties(msg) THEN 0
           ELSE FieldTokens(ObjectEntries(msg), tokensPerName))

\* The message makes Object.entries or encode throw.
MessageFails(msg) ==
    \/ NoProperties(msg)
    \/ \E j \in 1..Len(ObjectEntries(msg)) : EncodeThrows(ObjectEntries(msg)[j].v)

\* Lines 455-467: the loop over req.body, an array.
\* (Variant: the try encloses the loop, a failing message ends the count.)
RECURSIVE LoopTokensUntilFailure(_, _, _)
LoopTokensUntilFailure(msgs, tokensPerMessage, tokensPerName) ==
    IF msgs = << >> THEN 0
    ELSE MessageTokens(Head(msgs), tokensPerMessage, tokensPerName)
            + (IF MessageFails(Head(msgs)) THEN 0
               ELSE LoopTokensUntilFailure(Tail(msgs), tokensPerMessage, tokensPerName))

RECURSIVE LoopTokens(_, _, _)
LoopTokens(msgs, tokensPerMessage, tokensPerName) ==
    IF msgs = << >> THEN 0
    ELSE MessageTokens(Head(msgs), tokensPerMessage, tokensPerName)
            + LoopTokens(Tail(msgs), tokensPerMessage, tokensPerName)

\* for (const msg of req.body) throws when the body is not iterable.
NotIterable(body) == body.t # "array"

\* convertClaudePrompt(messages, false, false) of ./chat-completion: every
\* message becomes its role's turn prefix followed by its content, and the
\* turns are concatenated.
TurnPrefix(role) ==
    CASE role = "assistant" -> "\n\nAssistant: "
      [] role = "user" -> "\n\nHuman: "
      [] OTHER -> "\n\n"

RECURSIVE convertClaudePrompt(_)
convertClaudePrompt(msgs) ==
    IF msgs = << >> THEN ""
    ELSE TurnPrefix(JoinString(Prop(Head(msgs), "role")))
            \o JoinString(Prop(Head(msgs), "content"))
            \o convertClaudePrompt(Tail(msgs))

\* convertClaudePrompt throws on what is not a list of messages.
ConvertThrows(body) ==
    \/ body.t # "array"
    \/ \E i \in 1..Len(body.items) : body.items[i].t # "object"

\* countClaudeTokens(tokenizer, messages), lines 242-252, for messages that
\* convertClaudePrompt accepts.
countClaudeTokens(tokenizer, body) ==
    LET convertedPrompt == convertClaudePrompt(body.items)
    IN  IF tokenizer # "loaded"
        THEN Estimate(Len(convertedPrompt))
        ELSE Len(ClaudeEncode(convertedPrompt))

\* The outer catch of /api/tokenize/openai, lines 480-485.
\* (Variant: the body is turned into a string by String(), not JSON.stringify.)
FallbackCountOfString(body) == Estimate(Len(JoinString(body)))

FallbackCount(body) == Estimate(Len(JSONStringify(body)))

\* Lines 449-450 and 472: the framing constants chosen by the query model.
TokensPerName(queryModel) ==
    IF Includes(queryModel, "gpt-3.5-turbo-0301") THEN -1 ELSE 1

TokensPerMessage(queryModel) ==
    IF Includes(queryModel, "gpt-3.5-turbo-0301") THEN 4 ELSE 3

Surcharge(queryModel) ==
    IF Includes(queryModel, "gpt-3.5-turbo-0301") THEN 9 ELSE 0

tokensPadding == 3

\* Lines 449-479, the byte-pair branch after getTiktokenTokenizer returned.
\* (Variant: the padding is added once per message.)
TiktokenCountPaddingPerMessage(queryModel, body) ==
    LoopTokens(body.items, TokensPerMessage(queryModel) + tokensPadding,
               TokensPerName(queryModel))
        + Surcharge(queryModel)

\* (Variant: the padding is left out.)
TiktokenCountNoPadding(queryModel, body) ==
    LoopTokens(body.items, TokensPerMessage(queryModel), TokensPerName(queryModel))
        + Surcharge(queryModel)

TiktokenCount(queryModel, body) ==
    LoopTokens(body.items, TokensPerMessage(queryModel), TokensPerName(queryModel))
        + tokensPadding
        + Surcharge(queryModel)

\* The handler of /api/tokenize/openai, lines 427-485, up to its first await
\* (the byte-pair and claude branches have none).
OpenaiHandler(S, r, ok) ==
    LET body == S.req[r].body
        queryModel == S.req[r].model
        model == getTokenizerModel(queryModel)
    IN  IF ~Truthy(body)
        THEN Respond(S, r, SendStatus(400))
        ELSE IF model = "claude"
        THEN IF ConvertThrows(body)
             THEN Respond(S, r, SendTokenCount(FallbackCount(body), TRUE))
             ELSE Respond(S, r, SendTokenCount(countClaudeTokens(S.claude, body), FALSE))
        ELSE IF model \in {"llama", "mistral"}
        THEN \* countSentencepieceArrayTokens, lines 146-147, then line 120
             IF FlatMapThrows(body)
             THEN Respond(S, r, SendTokenCount(FallbackCount(body), TRUE))
             ELSE Await(SentencePieceTokenizer_get(
                            [S EXCEPT !.loc[r].handler = "openai", !.loc[r].key = model,
                                      !.loc[r].text =
                                          Join(FlatValues(body.items), "\n\n")],
                            r, model),
                        r, "oai_count")
        ELSE LET S1 == getTiktokenTokenizer(
                           [S EXCEPT !.loc[r].handler = "openai", !.loc[r].key = model],
                           r, model, ok)
             IN  IF S1.loc[r].loading
                 THEN Respond(S1, r, SendTokenCount(FallbackCount(body), TRUE))
                 ELSE IF NotIterable(body)
                 THEN Respond(S1, r, SendTokenCount(FallbackCount(body), TRUE))
                 ELSE Respond(S1, r, SendTokenCount(TiktokenCount(queryModel, body), FALSE))

\* Lines 147-149 and 440-446: countSentencepieceTokens completes, its count
\* is the token_count; if encodeIds threw, the outer catch answers.
OpenaiHandler_count(S, r, ok, ub) ==
    LET S1 == countSentencepieceTokens(S, r, S.loc[r].key, ok, ub)
    IN  IF S1.loc[r].cstThrew
        THEN Respond(S1, r, SendTokenCount(FallbackCount(S.req[r].body), TRUE))
        ELSE Respond(S1, r, SendTokenCount(S1.loc[r].count, FALSE))

(***************************************************************************)
(* /api/tokenize/ai21 and /api/tokenize/openai-encode.                     *)
(***************************************************************************)
\* req.body[0].
FirstOf(body) ==
    IF body.t = "array"
    THEN IF body.items = << >> THEN JUndefined ELSE body.items[1]
    ELSE Prop(body, "0")

\* The handler of /api/tokenize/ai21, lines 364-376, up to the await of
\* fetch.  Line 372 reads req.body[0].content outside the try.
Ai21Handler(S, r) ==
    LET body == S.req[r].body
    IN  IF ~Truthy(body)
        THEN Respond(S, r, SendStatus(400))
        ELSE IF NoProperties(FirstOf(body))
        THEN Reject(S, r)
        ELSE Await([S EXCEPT !.loc[r].handler = "ai21",
                             !.loc[r].text = JoinString(Prop(FirstOf(body), "content"))],
                   r, "ai21_fetch")

\* Lines 376-382: the remote answer.  outcome: the call failed ("error"),
\* answered without tokens ("empty"), or answered with the tokens of the text.
Ai21Handler_response(S, r, outcome) ==
    CASE outcome = "error" -> Respond(S, r, SendTokenCount(0, TRUE))
      [] outcome = "empty" -> Respond(S, r, SendTokenCount(0, FALSE))
      [] OTHER -> Respond(S, r, SendTokenCount(Len(ChunkIds(S.loc[r].text, 4)), FALSE))

\* The handler of /api/tokenize/openai-encode, lines 397-423, up to its
\* first await.
OpenaiEncodeHandler(S, r, ok) ==
    LET body == S.req[r].body
        queryModel == S.req[r].model
    IN  IF Includes(queryModel, "llama")
        THEN createSentencepieceEncodingHandler(S, r, "llama")
        ELSE IF Includes(queryModel, "mistral")
        THEN createSentencepieceEncodingHandler(S, r, "mistral")
        ELSE IF Includes(queryModel, "claude")
        THEN IF NoProperties(body) \/ S.claude # "loaded"
             THEN Respond(S, r, SendEmptyEncoding)
             ELSE Await([S EXCEPT !.loc[r].handler = "claude_encode",
                                  !.loc[r].key = "claude",
                                  !.loc[r].text = TextOf(body),
                                  !.loc[r].ids = ClaudeEncode(TextOf(body))],
                        r, "tik_chunks")
        ELSE createTiktokenEncodingHandler(S, r, getTokenizerModel(queryModel), ok)

(***************************************************************************)
(* What the callers send.                                                  *)
(***************************************************************************)
Message(role, content) ==
    JObj(<< [k |-> "role", v |-> JStr(role)], [k |-> "content", v |-> JStr(content)] >>)

NamedMessage(role, name, content) ==
    JObj(<< [k |-> "role", v |-> JStr(role)], [k |-> "name", v |-> JStr(name)],
            [k |-> "content", v |-> JStr(content)] >>)

\* Bodies of the encode endpoints: none, no text, a text.
EncodeBodies ==
    { NoBody, JObj(<< >>), JObj(<< [k |-> "text", v |-> JStr("Hi you")] >>) }

\* Bodies of the decode endpoints: none, no ids, two ids.
DecodeBodies ==
    { NoBody, JObj(<< >>),
      JObj(<< [k |-> "ids",
               v |-> JArr(<< JNum(TokenId("Hi")), JNum(TokenId(" y")) >>)] >>) }

\* Bodies of /api/tokenize/ai21: none, not a list, an empty list, a list of
\* null, a list of one message.
Ai21Bodies ==
    { NoBody, JObj(<< >>), JArr(<< >>), JArr(<< JNull >>),
      JArr(<< Message("user", "Hi you") >>) }

\* Bodies and query models of /api/tokenize/openai when the server is
\* checked as a whole.
ServerBodies == { NoBody, JObj(<< >>), JArr(<< Message("user", "Hi you") >>) }

ServerModels == { "", "claude-2", "llama-2-7b", "mistral-7b", "gpt-4-0613" }

\* Requests are numbered in the order their handlers start.
Next_request(r) == pc[r] = "idle" /\ (IF r = 1 THEN TRUE ELSE pc[r - 1] # "idle")

\* How encoding_for_model(model) can end when getTiktokenTokenizer calls it.
TiktokenOutcomes(model) ==
    IF model \in DOMAIN tokenizersCache THEN {TRUE} ELSE BOOLEAN

(***************************************************************************)
(* Actions: one per synchronous segment of a handler.                      *)
(***************************************************************************)
\* Startup calls loadTokenizers() once.
LoadTokenizers ==
    /\ claude_tokenizer = "undefined"
    /\ \E ok \in BOOLEAN : Commit(loadTokenizers(Cur, ok))

Ai21Request(r, Bodies) ==
    /\ Next_request(r)
    /\ \E body \in Bodies :
          Commit(Ai21Handler(Receive(Cur, r, "ai21", "", "", body), r))

Ai21Response(r) ==
    /\ pc[r] = "ai21_fetch"
    /\ \E outcome \in {"error", "empty", "tokens"} :
          Commit(Ai21Handler_response(Cur, r, outcome))

SentencepieceEncodeRequest(r, Keys, Bodies) ==
    /\ Next_request(r)
    /\ \E k \in Keys, body \in Bodies :
          Commit(createSentencepieceEncodingHandler(
                     Receive(Cur, r, "tokenize", k, "", body), r, k))

SentencepieceEncodeInstance(r) ==
    /\ pc[r] = "enc_get"
    /\ \E ok \in LoadOutcomes(r) : Commit(EncodingHandler_instance(Cur, r, ok))

SentencepieceEncodeCount(r) ==
    /\ pc[r] = "enc_count"
    /\ \E ok \in LoadOutcomes(r), ub \in Misuse :
          Commit(EncodingHandler_count(Cur, r, ok, ub))

SentencepieceEncodeChunks(r) ==
    /\ pc[r] = "enc_pieces"
    /\ \E ub \in Misuse : Commit(EncodingHandler_chunks(Cur, r, ub))

SentencepieceDecodeRequest(r, Keys, Bodies) ==
    /\ Next_request(r)
    /\ \E k \in Keys, body \in Bodies :
          Commit(createSentencepieceDecodingHandler(
                     Receive(Cur, r, "decode", k, "", body), r, k))

SentencepieceDecodeText(r) ==
    /\ pc[r] = "dec_get"
    /\ \E ok \in LoadOutcomes(r), ub \in Misuse :
          Commit(DecodingHandler_text(Cur, r, ok, ub))

TiktokenEncodeRequest(r, Bodies) ==
    /\ Next_request(r)
    /\ \E body \in Bodies, ok \in TiktokenOutcomes("gpt2") :
          Commit(createTiktokenEncodingHandler(
                     Receive(Cur, r, "tokenize", "gpt2", "", body), r, "gpt2", ok))

TiktokenEncodeChunks(r) ==
    /\ pc[r] = "tik_chunks"
    /\ Commit(TiktokenEncodingHandler_chunks(Cur, r))

TiktokenDecodeRequest(r, Bodies) ==
    /\ Next_request(r)
    /\ \E body \in Bodies, ok \in TiktokenOutcomes("gpt2") :
          Commit(createTiktokenDecodingHandler(
                     Receive(Cur, r, "decode", "gpt2", "", body), r, "gpt2", ok))

OpenaiEncodeRequest(r, Models, Bodies) ==
    /\ Next_request(r)
    /\ \E model \in Models, body \in Bodies :
       \E ok \in TiktokenOutcomes(getTokenizerModel(model)) :
          Commit(OpenaiEncodeHandler(
                     Receive(Cur, r, "openai-encode", "", model, body), r, ok))

OpenaiRequest(r, Models, Bodies) ==
    /\ Next_request(r)
    /\ \E model \in Models, body \in Bodies :
       \E ok \in TiktokenOutcomes(getTokenizerModel(model)) :
          Commit(OpenaiHandler(Receive(Cur, r, "openai", "", model, body), r, ok))

OpenaiCount(r) ==
    /\ pc[r] = "oai_count"
    /\ \E ok \in LoadOutcomes(r), ub \in Misuse :
          Commit(OpenaiHandler_count(Cur, r, ok, ub))

Next ==
    \/ LoadTokenizers
    \/ \E r \in Reqs :
          \/ Ai21Request(r, Ai21Bodies)
          \/ Ai21Response(r)
          \/ SentencepieceEncodeRequest(r, SPKeys, EncodeBodies)
          \/ SentencepieceEncodeInstance(r)
          \/ SentencepieceEncodeCount(r)
          \/ SentencepieceEncodeChunks(r)
          \/ SentencepieceDecodeRequest(r, SPKeys, DecodeBodies)
          \/ SentencepieceDecodeText(r)
          \/ TiktokenEncodeRequest(r, EncodeBodies)
          \/ TiktokenEncodeChunks(r)
          \/ TiktokenDecodeRequest(r, DecodeBodies)
          \/ OpenaiEncodeRequest(r, ServerModels, EncodeBodies)
          \/ OpenaiRequest(r, ServerModels, ServerBodies)
          \/ OpenaiCount(r)

Spec == Init /\ [][Next]_vars

(***************************************************************************)
(* Message counting on its own: /api/tokenize/openai serving one request   *)
(* after another, for message lists well-formed and malformed, bodies that *)
(* are no list, and a model of every family.                               *)
(***************************************************************************)
CountModels == { "gpt-4-0613", "gpt-3.5-turbo-0301", "claude-2", "llama-2-7b" }

\* A message, a message with a name, a message whose content is no string,
\* and null in the place of a message.
MessagePool ==
    { Message("user", "Hi"),
      NamedMessage("user", "Bob", "Hello there"),
      JObj(<< [k |-> "role", v |-> JStr("user")], [k |-> "content", v |-> JNum(12)] >>),
      JNull }

RECURSIVE ListsOf(_)
ListsOf(n) ==
    IF n = 0 THEN { << >> }
    ELSE ListsOf(n - 1)
            \cup { Append(l, m) : l \in ListsOf(n - 1), m \in MessagePool }

CountBodies ==
    { NoBody, JObj(<< >>), JObj(<< [k |-> "text", v |-> JStr("Hi")] >>) }
        \cup { JArr(l) : l \in ListsOf(MaxMsgs) }

\* The response of request r has been sent; the next request takes its place.
Recycle(r) ==
    /\ pc[r] = "done"
    /\ Commit([Cur EXCEPT !.pc[r] = "idle", !.req[r] = NoRequest,
                          !.loc[r] = NoLocals, !.resp[r] = NoResponse])

CountNext ==
    \/ LoadTokenizers
    \/ OpenaiRequest(1, CountModels, CountBodies)
    \/ OpenaiCount(1)
    \/ Recycle(1)

SpecCount == Init /\ [][CountNext]_vars

(***************************************************************************)
(* Message counting of the subword families on its own.                    *)
(***************************************************************************)
SubwordModels == { "llama-2-7b", "mistral-7b" }

SubwordNext ==
    \/ OpenaiRequest(1, SubwordModels, CountBodies)
    \/ OpenaiCount(1)
    \/ Recycle(1)

SpecSubword == Init /\ [][SubwordNext]_vars

(***************************************************************************)
(* Message counting of the byte-pair families on its own, for query models *)
(* that name one family, and one that names two.                           *)
(***************************************************************************)
FramingModels ==
    { "gpt-4-0613", "gpt-3.5-turbo", "gpt-3.5-turbo-0301", "gpt-4-gpt-3.5-turbo-0301" }

FramingNext ==
    \/ OpenaiRequest(1, FramingModels, CountBodies)
    \/ Recycle(1)

SpecFraming == Init /\ [][FramingNext]_vars

(***************************************************************************)
(* Message counting of one list and of the same messages in another order: *)
(* the second request repeats the first with its messages permuted.        *)
(***************************************************************************)
OrderModels == { "gpt-4-0613", "gpt-3.5-turbo-0301", "llama-2-7b" }

OrderPool ==
    { Message("user", "Hey"),
      Message("user", "you all"),
      NamedMessage("user", "Bob", "Hey"),
      JObj(<< [k |-> "role", v |-> JStr("user")], [k |-> "content", v |-> JNum(12)] >>) }

RECURSIVE OrderLists(_)
OrderLists(n) ==
    IF n = 0 THEN { << >> }
    ELSE OrderLists(n - 1)
            \cup { Append(l, m) : l \in OrderLists(n - 1), m \in OrderPool }

OrderBodies == { JArr(l) : l \in OrderLists(MaxMsgs) }

\* The one-to-one maps of 1..n onto itself.
Orderings(n) ==
    { f \in [1..n -> 1..n] : \A i, j \in 1..n : f[i] = f[j] => i = j }

\* The lists that hold the messages of the body in some order.
PermutedBodies(body) ==
    IF body.t # "array" THEN { body }
    ELSE { JArr([i \in 1..Len(body.items) |-> body.items[f[i]]]) :
              f \in Orderings(Len(body.items)) }

OrderNext ==
    \/ OpenaiRequest(1, OrderModels, OrderBodies)
    \/ OpenaiCount(1)
    \/ OpenaiRequest(2, { req[1].model }, PermutedBodies(req[1].body))
    \/ OpenaiCount(2)

SpecOrder == Init /\ [][OrderNext]_vars

(***************************************************************************)
(* The caches under concurrent requests: every route that reaches a cache, *)
(* with well-formed bodies, for two of the sentencepiece tokenizers and    *)
(* two tiktoken models.                                                    *)
(***************************************************************************)
CacheKeys == { "llama", "nerdstash" }

CacheModels == { "llama-2-7b", "gpt-4-0613", "claude-2" }

TextBodies == { JObj(<< [k |-> "text", v |-> JStr("Hi you")] >>) }

IdsBodies ==
    { JObj(<< [k |-> "ids",
               v |-> JArr(<< JNum(TokenId("Hi")), JNum(TokenId(" y")) >>)] >>) }

MessageBodies == { JArr(<< Message("user", "Hi you") >>) }

CacheNext ==
    \/ LoadTokenizers
    \/ \E r \in Reqs :
        \/ SentencepieceEncodeRequest(r, CacheKeys, TextBodies)
        \/ SentencepieceEncodeInstance(r)
        \/ SentencepieceEncodeCount(r)
        \/ SentencepieceEncodeChunks(r)
        \/ SentencepieceDecodeRequest(r, CacheKeys, IdsBodies)
        \/ SentencepieceDecodeText(r)
        \/ TiktokenEncodeRequest(r, TextBodies)
        \/ TiktokenEncodeChunks(r)
        \/ OpenaiEncodeRequest(r, CacheModels, TextBodies)
        \/ OpenaiRequest(r, CacheModels, MessageBodies)
        \/ OpenaiCount(r)

SpecCache == Init /\ [][CacheNext]_vars

(***************************************************************************)
(* C1 - C5: the caches and the handlers' error handling.                   *)
(***************************************************************************)
\* C1: for every backend key the load is performed at most once, and all
\* calls that obtain an instance for the key obtain the same one.
C1_LoadedOnce ==
    /\ \A k \in DOMAIN loads : Len(loads[k]) <= 1
    /\ \A k \in DOMAIN handed : Cardinality(handed[k]) <= 1

\* C2: once the load of a backend key has failed, no later request starts
\* another load of that key.
C2_FailedLoadNotRetried == loadAfterFail = {}

\* C3: when the load of a subword backend has failed, every call of
\* countSentencepieceTokens(tokenizer, text) on it returns (does not throw)
\* count = ceil(text.length / 3.35).
C3_FallbackAfterFailedLoad ==
    \A r \in Reqs :
        (loc[r].cstCalled /\ loc[r].cstKeyFailed)
            => /\ ~loc[r].cstThrew
               /\ loc[r].count = Estimate(Len(loc[r].text))

\* C5: no handler ends in an exception that escapes it: every request whose
\* handling has ended was sent a response.
C5_AlwaysAnswered ==
    \A r \in Reqs :
        /\ pc[r] # "crashed"
        /\ pc[r] = "done" => resp[r].kind # "none"

\* C4: no two requests that were in flight together have both started a
\* load of the same backend key, and the load of a sentencepiece tokenizer
\* (the caches whose get() has an await point) is started at most once.
C4_SingleFlight ==
    /\ \A k \in DOMAIN loads :
           \A i, j \in 1..Len(loads[k]) :
               i < j => {loads[k][i], loads[k][j]} \notin overlap
    /\ \A k \in SPKeys : LoadCount(loads, k) <= 1

\* C4 witness: two requests for the same sentencepiece tokenizer are in
\* flight, the load one of them started has not completed, the other has
\* called get() meanwhile, and the key's load was started once.
C4_Witness ==
    \E a, b \in Reqs :
        /\ a # b
        /\ {a, b} \subseteq InFlight(pc)
        /\ loc[a].key = loc[b].key
        /\ loc[a].key \in SPKeys
        /\ loc[a].loading
        /\ ~loc[b].loading
        /\ spProcs[loc[a].key] = << "loading" >>
        /\ loads[loc[a].key] = << a >>

(***************************************************************************)
(* Claims about message counting, checked under SpecCount.                 *)
(***************************************************************************)
\* Request r of /api/tokenize/openai has been answered.
Counted(r) == pc[r] = "done" /\ req[r].ep = "openai"

\* The family of request r is counted by a tiktoken tokenizer.
BytePair(r) == getTokenizerModel(req[r].model) \notin {"claude", "llama", "mistral"}

\* getTiktokenTokenizer returned a tokenizer to request r.
Obtained(r) == loc[r].got # 0 /\ ~loc[r].loading

\* Every element of the list is an object all of whose values are strings.
WellFormed(body) ==
    /\ body.t = "array"
    /\ \A i \in 1..Len(body.items) :
          /\ body.items[i].t = "object"
          /\ \A j \in 1..Len(body.items[i].fields) :
                body.items[i].fields[j].v.t = "string"

\* The sum of f over 1..n.
RECURSIVE SumTo(_, _)
SumTo(f, n) == IF n = 0 THEN 0 ELSE f[n] + SumTo(f, n - 1)

\* The count C9 states for a list of well-formed messages.
StatedCount(queryModel, body) ==
    LET dated == Includes(queryModel, "gpt-3.5-turbo-0301")
        perMessage == IF dated THEN 4 ELSE 3
        perName == IF dated THEN -1 ELSE 1
        ofMessage ==
            [i \in 1..Len(body.items) |->
                LET fs == body.items[i].fields
                IN  perMessage
                      + SumTo([j \in 1..Len(fs) |-> Len(TiktokenEncode(fs[j].v.s))],
                              Len(fs))
                      + (IF \E j \in 1..Len(fs) : fs[j].k = "name" THEN perName ELSE 0)]
    IN  SumTo(ofMessage, Len(body.items)) + 3 + (IF dated THEN 9 ELSE 0)

\* C6 as stated: every request with a body, a list or not, is answered with
\* a token_count of at least the padding 3.
C6_AsStated ==
    \A r \in Reqs :
        (Counted(r) /\ Truthy(req[r].body)) =>
            /\ resp[r].kind = "token_count"
            /\ resp[r].token_count >= tokensPadding

\* C6 amended: counting never throws, and a request with a body is answered
\* with a token_count that is a natural number; it is at least the padding 3
\* when the family is byte-pair, its tokenizer was obtained and the body is a
\* list, however malformed its messages.
C6_NeverThrows ==
    \A r \in Reqs :
        /\ pc[r] # "crashed"
        /\ Counted(r) =>
              IF ~Truthy(req[r].body)
              THEN resp[r] = SendStatus(400)
              ELSE /\ resp[r].kind = "token_count"
                   /\ resp[r].token_count \in Nat
                   /\ (BytePair(r) /\ Obtained(r) /\ req[r].body.t = "array") =>
                          resp[r].token_count >= tokensPadding

\* C6 witness: a byte-pair request whose list holds a message with a content
\* that is no string, and null, is answered with 3 + 2 (the role) + 3 + 3.
C6_Witness ==
    \E r \in Reqs :
        /\ Counted(r)
        /\ req[r].model = "gpt-4-0613"
        /\ Obtained(r)
        /\ Len(req[r].body.items) = 2
        /\ req[r].body.items[1].t = "object"
        /\ Prop(req[r].body.items[1], "content") = JNum(12)
        /\ req[r].body.items[2] = JNull
        /\ resp[r] = SendTokenCount(11, FALSE)

\* C9: for a byte-pair family whose tokenizer was obtained and a list of
\* well-formed messages, token_count is the sum over the messages of
\* tokensPerMessage, the encoded length of every field value and tokensPerName
\* for a name field, plus the padding 3 once, plus 9 when the requested model
\* contains 'gpt-3.5-turbo-0301' (4 and -1 for it, 3 and 1 otherwise).
C9_FramingSum ==
    \A r \in Reqs :
        (Counted(r) /\ BytePair(r) /\ Obtained(r) /\ WellFormed(req[r].body)) =>
            resp[r] = SendTokenCount(StatedCount(req[r].model, req[r].body), FALSE)

\* C9 witness: the dated variant counts a message and a named message as
\* (4 + 2 + 1) + (4 + 2 + 1 - 1 + 4) + 3 + 9.
C9_Witness ==
    \E r \in Reqs :
        /\ Counted(r)
        /\ req[r].model = "gpt-3.5-turbo-0301"
        /\ Obtained(r)
        /\ req[r].body = JArr(<< Message("user", "Hi"),
                                 NamedMessage("user", "Bob", "Hello there") >>)
        /\ resp[r].token_count = 29

\* An exception escapes the counting path of request r: the body is not what
\* the family's counter iterates, the tiktoken tokenizer could not be made,
\* or the sentencepiece processor threw.
Escapes(r) ==
    LET model == getTokenizerModel(req[r].model)
        body == req[r].body
        noList == \/ body.t # "array"
                  \/ \E i \in 1..Len(body.items) : body.items[i] = JNull
    IN  CASE model = "claude" -> noList
          [] model \in {"llama", "mistral"} -> noList \/ loc[r].cstThrew
          [] OTHER -> body.t # "array" \/ ~Obtained(r)

\* C10: when an exception escapes the counting path, the response carries a
\* token_count, the least integer n with n * 3.35 >= the length of the JSON
\* serialization of the whole body; and the fallback answers only then.
C10_FallbackOfWholeBody ==
    \A r \in Reqs :
        (Counted(r) /\ Truthy(req[r].body)) =>
            /\ resp[r].caught <=> Escapes(r)
            /\ Escapes(r) =>
                  LET length == Len(JSONStringify(req[r].body))
                      n == resp[r].token_count
                  IN  /\ resp[r].kind = "token_count"
                      /\ n * 335 >= length * 100
                      /\ (n - 1) * 335 < length * 100

\* C10 witness: the tokenizer of a byte-pair family could not be made, and
\* the 32 characters of [{"role":"user","content":"Hi"}] are answered as 10.
C10_Witness ==
    \E r \in Reqs :
        /\ Counted(r)
        /\ BytePair(r)
        /\ ~Obtained(r)
        /\ req[r].body = JArr(<< Message("user", "Hi") >>)
        /\ Len(JSONStringify(req[r].body)) = 32
        /\ resp[r] = SendTokenCount(10, TRUE)

(***************************************************************************)
(* Claims about the debug encode / decode endpoints.                       *)
(***************************************************************************)
\* The backend behind the endpoint of request r failed to load: the
\* sentencepiece model of its key, or the tiktoken encoding it asked for.
BackendFailed(r) ==
    IF loc[r].key \in SPKeys THEN loc[r].key \in failed
    ELSE loc[r].handler \in {"tik_encode", "tik_decode"} /\ loc[r].loading

\* C11: when the backend behind a debug endpoint failed to load, encode
\* answers exactly ids = [], count = 0, chunks = [] and decode answers
\* text = ''.
C11_EmptyWhenUnavailable ==
    \A r \in Reqs :
        (pc[r] = "done" /\ resp[r].kind # "status" /\ BackendFailed(r)) =>
            /\ loc[r].handler \in {"sp_encode", "tik_encode"} =>
                  /\ resp[r].kind = "encoding"
                  /\ resp[r].ids = << >>
                  /\ resp[r].count = 0
                  /\ resp[r].chunksDefined
                  /\ resp[r].chunks = << >>
            /\ loc[r].handler \in {"sp_decode", "tik_decode"} =>
                  /\ resp[r].kind = "text"
                  /\ resp[r].textDefined
                  /\ resp[r].text = ""

(***************************************************************************)
(* Claims about message counting of the subword families, checked under    *)
(* SpecSubword.                                                            *)
(***************************************************************************)
\* The family of request r is counted by a sentencepiece tokenizer.
Subword(r) == getTokenizerModel(req[r].model) \in {"llama", "mistral"}

\* The body is a list whose elements all have properties.
ListOfObjects(body) ==
    /\ body.t = "array"
    /\ \A i \in 1..Len(body.items) : body.items[i].t = "object"

\* The field values of the first n messages, in order.
RECURSIVE ValuesUpTo(_, _)
ValuesUpTo(msgs, n) ==
    IF n = 0 THEN << >>
    ELSE ValuesUpTo(msgs, n - 1)
            \o [j \in 1..Len(msgs[n].fields) |-> msgs[n].fields[j].v]

\* The first n values as text, '\n\n' between one and the next.
RECURSIVE Separated(_, _)
Separated(vals, n) ==
    IF n = 0 THEN ""
    ELSE IF n = 1 THEN JoinString(vals[1])
    ELSE Separated(vals, n - 1) \o "\n\n" \o JoinString(vals[n])

\* The single string C12 states.
StatedJoin(body) ==
    LET vals == ValuesUpTo(body.items, Len(body.items))
    IN  Separated(vals, Len(vals))

\* C12: for llama and mistral, counting a list of messages is counting the
\* one string that joins every field value of every message, in order, with
\* '\n\n': that string is what countSentencepieceTokens is given, encodeIds
\* is called at most once for the request (once when get() returned a
\* processor), and token_count is the count text counting returns for it.
C12_CountsJoinedString ==
    \A r \in Reqs :
        (Counted(r) /\ Subword(r) /\ ListOfObjects(req[r].body)) =>
            LET joined == StatedJoin(req[r].body)
                l == loc[r]
            IN  /\ l.text = joined
                /\ l.encodes <= 1
                /\ l.got # 0 => l.encodes = 1
                /\ ~resp[r].caught => resp[r] = SendTokenCount(l.count, FALSE)
                /\ (l.got # 0 /\ ~l.misused) =>
                      resp[r] = SendTokenCount(Len(EncodeIds(joined)), FALSE)
                /\ l.got = 0 =>
                      /\ l.encodes = 0
                      /\ resp[r] = SendTokenCount(Estimate(Len(joined)), FALSE)

\* C12 witness: llama counts a message and a named message as the pieces of
\* user\n\nHi\n\nuser\n\nBob\n\nHello there, encoded once.
C12_Witness ==
    \E r \in Reqs :
        /\ Counted(r)
        /\ req[r].model = "llama-2-7b"
        /\ req[r].body = JArr(<< Message("user", "Hi"),
                                 NamedMessage("user", "Bob", "Hello there") >>)
        /\ loc[r].text = "user\n\nHi\n\nuser\n\nBob\n\nHello there"
        /\ loc[r].got # 0
        /\ ~loc[r].misused
        /\ loc[r].encodes = 1
        /\ resp[r].token_count = 16

(***************************************************************************)
(* Claims about the framing of byte-pair counting, checked under           *)
(* SpecFraming.                                                            *)
(***************************************************************************)
\* Every field of the message is encoded without an exception.
Encodable(msg) ==
    /\ msg.t = "object"
    /\ \A j \in 1..Len(msg.fields) : msg.fields[j].v.t = "string"

\* The full amount of the first n messages, all of them encodable.
RECURSIVE FramedSum(_, _, _, _)
FramedSum(msgs, n, perMessage, perName) ==
    IF n = 0 THEN 0
    ELSE LET fs == msgs[n].fields
         IN  FramedSum(msgs, n - 1, perMessage, perName)
               + perMessage
               + SumTo([j \in 1..Len(fs) |-> Len(TiktokenEncode(fs[j].v.s))], Len(fs))
               + (IF \E j \in 1..Len(fs) : fs[j].k = "name" THEN perName ELSE 0)

\* C13: in byte-pair counting a message one of whose fields fails to encode
\* contributes nothing, and every other message its full amount.
C13_FailedMessageSkipped ==
    \A r \in Reqs :
        (Counted(r) /\ BytePair(r) /\ Obtained(r) /\ req[r].body.t = "array") =>
            LET counted == SelectSeq(req[r].body.items, Encodable)
            IN  resp[r].token_count =
                    FramedSum(counted, Len(counted),
                              TokensPerMessage(req[r].model), TokensPerName(req[r].model))
                        + tokensPadding + Surcharge(req[r].model)

\* C14: in byte-pair counting tokensPerMessage = 4 and tokensPerName = -1 are
\* used exactly when getTokenizerModel resolves the family
\* 'gpt-3.5-turbo-0301', and 3 and 1 for every other resolved family.
C14_FramingByResolvedFamily ==
    \A r \in Reqs :
        (Counted(r) /\ BytePair(r) /\ Obtained(r) /\ WellFormed(req[r].body)) =>
            LET dated == getTokenizerModel(req[r].model) = "gpt-3.5-turbo-0301"
            IN  resp[r].token_count =
                    FramedSum(req[r].body.items, Len(req[r].body.items),
                              IF dated THEN 4 ELSE 3, IF dated THEN -1 ELSE 1)
                        + tokensPadding + Surcharge(req[r].model)

(***************************************************************************)
(* Claims about the order of the messages, checked under SpecOrder.        *)
(***************************************************************************)
\* Requests a and b count the same messages, in some order, for the same
\* query model.
Reordered(a, b) ==
    /\ a # b
    /\ Counted(a)
    /\ Counted(b)
    /\ req[a].model = req[b].model
    /\ req[a].body.t = "array"
    /\ req[b].body \in PermutedBodies(req[a].body)

\* Both requests were counted by the tokenizer of their family.
BothEncoded(a, b) ==
    IF Subword(a)
    THEN \A r \in {a, b} : loc[r].got # 0 /\ ~loc[r].misused /\ ~resp[r].caught
    ELSE Obtained(a) /\ Obtained(b)

\* C15 as stated: for every family, the same messages in another order are
\* answered with the same token_count.
C15_AsStated ==
    \A a, b \in Reqs :
        (Reordered(a, b) /\ BothEncoded(a, b)) =>
            resp[a].token_count = resp[b].token_count

\* C15 amended: for a byte-pair family, the same messages in another order
\* are answered with the same token_count, both when the tokenizer was
\* obtained for the two requests and when it was obtained for neither.
C15_OrderFreeBytePair ==
    \A a, b \in Reqs :
        (Reordered(a, b) /\ BytePair(a) /\ (Obtained(a) <=> Obtained(b))) =>
            resp[a].token_count = resp[b].token_count

\* C15 witness: a byte-pair family answers a named message followed by a
\* message with a number for content, and the two in the other order, alike.
C15_Witness ==
    \E a, b \in Reqs :
        /\ Reordered(a, b)
        /\ BytePair(a)
        /\ Obtained(a)
        /\ Obtained(b)
        /\ Len(req[a].body.items) = 2
        /\ req[a].body.items[1] = NamedMessage("user", "Bob", "Hey")
        /\ Prop(req[a].body.items[2], "content") = JNum(12)
        /\ req[b].body.items[1] = req[a].body.items[2]
        /\ resp[a].token_count = resp[b].token_count
        /\ resp[a].token_count > tokensPadding

\* C16: in every successful debug encode response chunks has one entry per
\* id, in order, and chunks[i] is the text that decoding ids[i] alone gives.
C16_ChunksDecodeEachId ==
    \A r \in Reqs :
        (pc[r] = "done" /\ resp[r].kind = "encoding" /\ ~resp[r].caught) =>
            /\ resp[r].chunksDefined
            /\ Len(resp[r].chunks) = Len(resp[r].ids)
            /\ \A i \in 1..Len(resp[r].ids) :
                  resp[r].chunks[i] = TokenText(resp[r].ids[i])

\* C18: under every interleaving, no request encodes or decodes with a
\* processor that get() handed it while its load was still in progress or
\* after its load had failed.
C18_OnlyLoadedUsed == \A r \in Reqs : ~loc[r].misused

\* C20: in every response of a debug encode endpoint, computed by a backend
\* or sent from the error path, count is the number of entries of ids.
C20_CountIsLengthOfIds ==
    \A r \in Reqs :
        (pc[r] = "done" /\ resp[r].kind = "encoding") =>
            resp[r].count = Len(resp[r].ids)

\* C20 witness: an encode response of each kind has been sent: the three
\* pieces of 'Hi you' by a loaded sentencepiece processor, and the empty
\* answer of the error path.
C20_Witness ==
    \E a, b \in Reqs :
        /\ pc[a] = "done"
        /\ loc[a].handler = "sp_encode"
        /\ resp[a].kind = "encoding"
        /\ ~resp[a].caught
        /\ Len(resp[a].ids) = 3
        /\ resp[a].count = 3
        /\ pc[b] = "done"
        /\ resp[b] = SendEmptyEncoding

(***************************************************************************)
(* The resolver on its own: model strings are assembled from fragments     *)
(* (the markers the resolvers test for, pieces of them, and filler), or    *)
(* start from a name of the legacy completion catalog.                     *)
(***************************************************************************)
Fragments ==
    { "claude", "llama", "mistral", "gpt-4", "-32k", "gpt-3.5-turbo", "-0301",
      "nerdstash", "_v2", "x" }

\* The caller starts from a catalog name.
PickCatalogName ==
    /\ argParts = 0
    /\ UNCHANGED serverVars
    /\ \E i \in 1..Len(TEXT_COMPLETION_MODELS) :
          argModel' = TEXT_COMPLETION_MODELS[i]
    /\ argParts' = 1
    /\ resolved' = ""
    /\ applied' = FALSE

\* The caller appends one more fragment to the string.
AppendFragment ==
    /\ argParts < MaxFrags
    /\ UNCHANGED serverVars
    /\ \E f \in Fragments : argModel' = argModel \o f
    /\ argParts' = argParts + 1
    /\ resolved' = ""
    /\ applied' = FALSE

\* The caller calls getTokenizerModel(argModel).
Resolve ==
    /\ ~applied
    /\ resolved' = getTokenizerModel(argModel)
    /\ applied' = TRUE
    /\ UNCHANGED <<argModel, argParts>>
    /\ UNCHANGED serverVars

ResolverNext == PickCatalogName \/ AppendFragment \/ Resolve

SpecResolve == Init /\ [][ResolverNext]_vars

\* The caller calls getSentencepiceTokenizer(argModel).
ResolveSentencepiece ==
    /\ ~applied
    /\ resolved' = getSentencepiceTokenizer(argModel)
    /\ applied' = TRUE
    /\ UNCHANGED <<argModel, argParts>>
    /\ UNCHANGED serverVars

SentencepieceNext == AppendFragment \/ ResolveSentencepiece

SpecSentencepiece == Init /\ [][SentencepieceNext]_vars

(***************************************************************************)
(* C7, C8: the resolver.                                                   *)
(***************************************************************************)
\* The ordered substring tests, as a list of markers.
Precedence ==
    << "claude", "llama", "mistral", "gpt-4-32k", "gpt-4", "gpt-3.5-turbo-0301",
       "gpt-3.5-turbo" >>

\* The first marker of the list that occurs in s, if any does; else s itself
\* when it is a catalog name; else the default.
FirstMatch(s) ==
    LET hits == { i \in 1..Len(Precedence) : Includes(s, Precedence[i]) }
    IN  IF hits # {} THEN Precedence[SetMin(hits)]
        ELSE IF s \in { TEXT_COMPLETION_MODELS[i] : i \in 1..Len(TEXT_COMPLETION_MODELS) }
             THEN s
        ELSE "gpt-3.5-turbo"

FamilyTags ==
    { Precedence[i] : i \in 1..Len(Precedence) }
        \cup { TEXT_COMPLETION_MODELS[i] : i \in 1..Len(TEXT_COMPLETION_MODELS) }

\* C7: for every input string getTokenizerModel returns the marker of the
\* first test of the ordered list claude, llama, mistral, gpt-4-32k, gpt-4,
\* gpt-3.5-turbo-0301, gpt-3.5-turbo that matches, else the string itself
\* when it is a catalog name, else gpt-3.5-turbo; the result is always one
\* of those values.
C7_FirstMatchWins ==
    applied => /\ resolved = FirstMatch(argModel)
               /\ resolved \in FamilyTags

\* C7 witness: a string matching two markers has been resolved to the earlier
\* one, and a catalog name matching no marker has been resolved to itself.
C7_Witness ==
    /\ applied
    /\ \/ /\ Includes(argModel, "gpt-4-32k")
          /\ ~Includes(argModel, "claude")
          /\ resolved = "gpt-4-32k"
       \/ /\ argModel = "text-davinci-003"
          /\ resolved = argModel

\* C8 as stated: every string that contains both 'gpt-3.5-turbo-0301' and
\* 'gpt-3.5-turbo' resolves to 'gpt-3.5-turbo-0301'.
C8_AsStated ==
    (applied /\ Includes(argModel, "gpt-3.5-turbo-0301")
             /\ Includes(argModel, "gpt-3.5-turbo"))
        => resolved = "gpt-3.5-turbo-0301"

\* C8 amended: every string that contains both 'gpt-3.5-turbo-0301' and
\* 'gpt-3.5-turbo', and none of the markers tested earlier ('claude',
\* 'llama', 'mistral', 'gpt-4'), resolves to 'gpt-3.5-turbo-0301'.
C8_DatedBeforeGeneric ==
    (applied /\ Includes(argModel, "gpt-3.5-turbo-0301")
             /\ Includes(argModel, "gpt-3.5-turbo")
             /\ ~Includes(argModel, "claude")
             /\ ~Includes(argModel, "llama")
             /\ ~Includes(argModel, "mistral")
             /\ ~Includes(argModel, "gpt-4"))
        => resolved = "gpt-3.5-turbo-0301"

\* C8 witness: a longer string holding the dated marker (and so the generic
\* one) and no earlier marker has been resolved to the dated family.
C8_Witness ==
    /\ applied
    /\ Includes(argModel, "gpt-3.5-turbo-0301")
    /\ Includes(argModel, "gpt-3.5-turbo")
    /\ Len(argModel) > Len("gpt-3.5-turbo-0301")
    /\ resolved = "gpt-3.5-turbo-0301"

\* C17: getTokenizerModel applied to a name of TEXT_COMPLETION_MODELS returns
\* that name unchanged.
C17_CatalogVerbatim ==
    (applied /\ ArrayIncludes(TEXT_COMPLETION_MODELS, argModel)) => resolved = argModel

(***************************************************************************)
(* C19: getSentencepiceTokenizer, checked under SpecSentencepiece.         *)
(***************************************************************************)
\* C19: getSentencepiceTokenizer never returns the nerdstash_v2 tokenizer:
\* for every string the result is llama, nerdstash, mistral or null, and a
\* string that contains 'nerdstash_v2' gets llama or nerdstash.
C19_NeverNerdstashV2 ==
    applied =>
        /\ resolved \in {"llama", "nerdstash", "mistral", "null"}
        /\ Includes(argModel, "nerdstash_v2") =>
              resolved = (IF Includes(argModel, "llama") THEN "llama" ELSE "nerdstash")

\* C19 witness: a string that contains 'nerdstash_v2' and not 'llama' has
\* been given the nerdstash tokenizer.
C19_Witness ==
    /\ applied
    /\ Includes(argModel, "nerdstash_v2")
    /\ ~Includes(argModel, "llama")
    /\ resolved = "nerdstash"

====
